---- MODULE Spec2Model ----
(***************************************************************************)
(* SentinelAuth client-side collector (static/js/sentinel.js) and the      *)
(* server-side decision it feeds (README.md; the server code itself is     *)
(* not part of the sources at hand).                                       *)
(*                                                                         *)
(* Conventions                                                             *)
(*  - A JavaScript string is a sequence of UTF-16 code units (naturals).   *)
(*  - performance.now() is fractional; the clock is counted in units of    *)
(*    1/UnitsPerMs millisecond, so that Math.round is not the identity.    *)
(*  - undefined / null / a missing API are the model values Undefined and  *)
(*    Null; a call that throws is the outcome "throws".                    *)
(*  - A 32-bit integer is kept as a pair <<hi, lo>> of 16-bit halves of    *)
(*    its two's-complement pattern, so no intermediate exceeds TLC's       *)
(*    integer range.                                                       *)
(***************************************************************************)
EXTENDS Integers, Sequences, FiniteSets, TLC

VARIABLES
    env,            \* the browser environment the script probes (navigator, window, canvas, WebGL)
    phase,          \* "loading" until DOMContentLoaded has been dispatched, then "ready"
    dom,            \* which of #login-form, #username, #password exist in the document
    now,            \* current reading of performance.now(), in clock units
    ticks,          \* number of clock advances so far (bounded by MaxTicks)
    t_page_load,    \* sentinel.js:10
    t_first_focus,  \* sentinel.js:11
    t_first_key,    \* sentinel.js:12
    t_submit,       \* sentinel.js:13
    listeners,      \* the event listeners currently registered by the script
    form,           \* child elements of #login-form the script may add or remove, in document order
    handler,        \* how often the submit listener has run, and the constants of its last run
    submitEvents,   \* number of submit events dispatched on the form by the user agent
    wire,           \* form submissions sent to the server, oldest first
    probe,          \* result of the last direct call of checkHeadless / generateFingerprint
    server,         \* the server's configuration and its last decision
    arg,            \* the string simpleHash is called on directly
    limiter,        \* the rate limiter: its configuration, its clock and its attempt records
    history         \* what the user has done so far: time of the first focus of #username, of the first and of the last keydown

vars == <<env, phase, dom, now, ticks, t_page_load, t_first_focus, t_first_key,
          t_submit, listeners, form, handler, submitEvents, wire, probe, server, arg,
          limiter, history>>

-----------------------------------------------------------------------------
(* Bounds of the model *)

\* Clock advances explored on one page.
MaxTicks == 1

\* Submit events explored on one page.
MaxSubmits == 2

\* Resolution of the clock: units per millisecond.
UnitsPerMs == 2

\* Of the eleven candidate fonts, how many have an undetermined rendering
\* (the rest are not installed).
MaxVariedFonts == 1

\* Longest string over HashAlphabet that simpleHash is called on.
MaxHashLen == 6

\* Login attempts shown to the rate limiter.
MaxCalls == 7

\* Advances of the rate limiter's clock.
MaxAdvances == 2

-----------------------------------------------------------------------------
(* JavaScript values *)

\* A value read from the environment carries its JavaScript type.
Undefined == [t |-> "undefined", v |-> 0]
Null == [t |-> "null", v |-> 0]
Num(n) == [t |-> "number", v |-> n]
Str(s) == [t |-> "string", v |-> s]
Bool(b) == [t |-> "boolean", v |-> b]
\* An object whose content the script does not read.
Obj == [t |-> "object", v |-> 0]
\* An array-like object, of which the script reads the length only.
ArrayLike(n) == [t |-> "array", v |-> n]

\* ToBoolean.
Truthy(x) ==
    CASE x.t = "undefined" -> FALSE
      [] x.t = "null" -> FALSE
      [] x.t = "number" -> x.v # 0
      [] x.t = "string" -> Len(x.v) > 0
      [] x.t = "boolean" -> x.v
      [] OTHER -> TRUE

\* Math.round(x) for x given in clock units: nearest integer millisecond,
\* halves rounded towards +Infinity (also for negative x).
MathRound(u) == (2 * u + UnitsPerMs) \div (2 * UnitsPerMs)

-----------------------------------------------------------------------------
(* Strings *)

STR_SEP == <<124, 124, 124>>  \* "|||"
STR_COMMA == <<44>>  \* ","
STR_unknown == <<117, 110, 107, 110, 111, 119, 110>>  \* "unknown"
STR_canvas_error == <<99, 97, 110, 118, 97, 115, 45, 101, 114, 114, 111, 114>>  \* "canvas-error"
STR_webgl_error == <<119, 101, 98, 103, 108, 45, 101, 114, 114, 111, 114>>  \* "webgl-error"
STR_Chrome == <<67, 104, 114, 111, 109, 101>>  \* "Chrome"
STR_SwiftShader == <<83, 119, 105, 102, 116, 83, 104, 97, 100, 101, 114>>  \* "SwiftShader"
STR_llvmpipe == <<108, 108, 118, 109, 112, 105, 112, 101>>  \* "llvmpipe"
STR_Microsoft_Basic_Render == <<77, 105, 99, 114, 111, 115, 111, 102, 116, 32, 66, 97, 115, 105, 99, 32, 82, 101, 110, 100, 101, 114>>  \* "Microsoft Basic Render"

\* Sample values of the environment's strings.
UA_Chrome == <<77, 111, 122, 32, 67, 104, 114, 111, 109, 101, 47, 49, 50, 48>>  \* "Moz Chrome/120"
UA_Firefox == <<77, 111, 122, 32, 70, 105, 114, 101, 102, 111, 120, 47, 49, 50, 49>>  \* "Moz Firefox/121"
R_SwiftShader == <<71, 111, 111, 103, 108, 101, 32, 83, 119, 105, 102, 116, 83, 104, 97, 100, 101, 114>>  \* "Google SwiftShader"
R_llvmpipe == <<108, 108, 118, 109, 112, 105, 112, 101, 32, 40, 76, 76, 86, 77, 32, 49, 53, 41>>  \* "llvmpipe (LLVM 15)"
R_MsBasic == <<77, 105, 99, 114, 111, 115, 111, 102, 116, 32, 66, 97, 115, 105, 99, 32, 82, 101, 110, 100, 101, 114, 32, 68, 114, 105, 118, 101, 114>>  \* "Microsoft Basic Render Driver"
R_Hardware == <<65, 78, 71, 76, 69, 32, 40, 78, 86, 73, 68, 73, 65, 41>>  \* "ANGLE (NVIDIA)"
V_Vendor == <<71, 111, 111, 103, 108, 101, 32, 73, 110, 99, 46>>  \* "Google Inc."
S_Platform == <<76, 105, 110, 117, 120, 32, 120, 56, 54, 95, 54, 52>>  \* "Linux x86_64"
S_Language == <<101, 110, 45, 85, 83>>  \* "en-US"
S_DataURL == <<100, 97, 116, 97, 58, 105, 109, 97, 103, 101, 47, 112, 110, 103, 59, 98, 97, 115, 101, 54, 52, 44, 105, 86, 66, 79, 82>>  \* "data:image/png;base64,iVBOR"

\* String.prototype.includes / RegExp.prototype.test for a literal pattern:
\* the needle occurs as a contiguous run of the haystack.
Includes(hay, needle) ==
    \E i \in 0..(Len(hay) - Len(needle)) :
        \A j \in 1..Len(needle) : hay[i + j] = needle[j]

\* Decimal digits of a natural number, as a string.
RECURSIVE NatToString(_)
NatToString(n) ==
    IF n < 10 THEN <<48 + n>>
    ELSE NatToString(n \div 10) \o <<48 + (n % 10)>>

\* String(x) as Array.prototype.join applies it to one element: undefined and
\* null give the empty string, a number its decimal rendering, a string itself.
ToJoinString(x) ==
    CASE x.t = "undefined" -> <<>>
      [] x.t = "null" -> <<>>
      [] x.t = "number" -> (IF x.v < 0 THEN <<45>> \o NatToString(0 - x.v) ELSE NatToString(x.v))
      [] x.t = "string" -> x.v

\* Array.prototype.join(sep).
RECURSIVE Join(_, _)
Join(arr, sep) ==
    IF Len(arr) = 0 THEN <<>>
    ELSE IF Len(arr) = 1 THEN ToJoinString(arr[1])
    ELSE ToJoinString(arr[1]) \o sep \o Join(Tail(arr), sep)

-----------------------------------------------------------------------------
(* simpleHash: sentinel.js:168-176 *)

W16 == 256 * 256

\* hash << 5 on the 32-bit pattern.
Shl5(h) ==
    LET lo32 == h[2] * 32
        hi32 == h[1] * 32 + (lo32 \div W16)
    IN  <<hi32 % W16, lo32 % W16>>

\* a - b on 32-bit patterns (modulo 2^32).
Sub32(a, b) ==
    LET borrow == IF a[2] < b[2] THEN 1 ELSE 0
    IN  <<(a[1] - b[1] - borrow + 2 * W16) % W16, (a[2] - b[2] + W16) % W16>>

\* a + c on a 32-bit pattern, c a code unit (modulo 2^32).
Add32(a, c) ==
    LET lo == a[2] + c
    IN  <<(a[1] + (lo \div W16)) % W16, lo % W16>>

\* One turn of the loop, lines 171-173.  (hash << 5) - hash + char is exact
\* in double arithmetic and "hash & hash" reduces it to 32 bits, so the new
\* pattern is the old one times 32, minus itself, plus char, modulo 2^32.
HashStep(h, char) == Add32(Sub32(Shl5(h), h), char)

\* Turns i..last of the for loop, lines 170-174, starting from pattern h.
\* (The test on the new pattern is always true; it makes the pattern a value
\* before the next turn instead of a growing expression.)
RECURSIVE HashTurns(_, _, _, _)
HashTurns(str, i, last, h) ==
    IF i > last THEN h
    ELSE LET hash == HashStep(h, str[i])
         IN  IF hash[1] < W16 THEN HashTurns(str, i + 1, last, hash) ELSE hash

\* The whole loop from turn i on, evaluated in runs of sixteen turns so that
\* the depth of evaluation grows with Len(str) / 16 rather than Len(str).
RECURSIVE HashLoop(_, _, _)
HashLoop(str, i, h) ==
    IF i > Len(str) THEN h
    ELSE LET last == IF i + 15 < Len(str) THEN i + 15 ELSE Len(str)
             hash == HashTurns(str, i, last, h)
         IN  IF hash[1] < W16 THEN HashLoop(str, last + 1, hash) ELSE hash

IsNegative32(h) == h[1] >= 32768

\* Math.abs of the signed value, as an unsigned pattern (2^31 for -2^31).
Abs32(h) ==
    IF IsNegative32(h)
    THEN LET borrow == IF h[2] = 0 THEN 0 ELSE 1
         IN  <<(W16 - h[1] - borrow) % W16, (W16 - h[2]) % W16>>
    ELSE h

Base36Digit(d) == IF d < 10 THEN 48 + d ELSE 97 + (d - 10)

\* Number.prototype.toString(36) of a non-negative value below 2^32.
RECURSIVE ToString36(_)
ToString36(u) ==
    LET r1   == u[1] % 36
        mid  == r1 * W16 + u[2]
        q    == <<u[1] \div 36, mid \div 36>>
        d    == mid % 36
    IN  IF q = <<0, 0>> THEN <<Base36Digit(d)>>
        ELSE ToString36(q) \o <<Base36Digit(d)>>

\* simpleHash without Math.abs: a negative accumulator is rendered with a sign.
simpleHashSigned(str) ==
    LET hash == HashLoop(str, 1, <<0, 0>>)
    IN  IF IsNegative32(hash) THEN <<45>> \o ToString36(Abs32(hash)) ELSE ToString36(hash)

simpleHash(str) == ToString36(Abs32(HashLoop(str, 1, <<0, 0>>)))

-----------------------------------------------------------------------------
(* The environment sentinel.js reads *)

\* WebGL as a fresh canvas offers it.  kind:
\*   "noContext"         getContext('webgl') and ('experimental-webgl') return null
\*   "noExtension"       getExtension('WEBGL_debug_renderer_info') returns null
\*   "throwsEarly"       createElement, getContext or getExtension throws, or the
\*                       first getParameter call made throws
\*   "throwsAtRenderer"  getParameter(UNMASKED_RENDERER_WEBGL) throws, the vendor
\*                       query does not
\*   "ok"                both queries return; renderer may be null
Renderers == {Null, Str(R_SwiftShader), Str(R_llvmpipe), Str(R_MsBasic), Str(R_Hardware)}

WebGLs ==
    { [kind |-> k, vendor |-> Str(V_Vendor), renderer |-> Null] :
        k \in {"noContext", "noExtension", "throwsEarly", "throwsAtRenderer"} }
    \cup { [kind |-> "ok", vendor |-> Str(V_Vendor), renderer |-> r] : r \in Renderers }

HardwareWebGL == [kind |-> "ok", vendor |-> Str(V_Vendor), renderer |-> Str(R_Hardware)]

\* canvas.getContext('2d') on a fresh canvas: a context, null, or an exception.
Canvas2Ds == {"ok", "null", "throws"}

baseFonts == <<"monospace", "sans-serif", "serif">>

testFonts == <<
    <<65, 114, 105, 97, 108>>,  \* "Arial"
    <<86, 101, 114, 100, 97, 110, 97>>,  \* "Verdana"
    <<67, 111, 117, 114, 105, 101, 114, 32, 78, 101, 119>>,  \* "Courier New"
    <<84, 105, 109, 101, 115, 32, 78, 101, 119, 32, 82, 111, 109, 97, 110>>,  \* "Times New Roman"
    <<71, 101, 111, 114, 103, 105, 97>>,  \* "Georgia"
    <<80, 97, 108, 97, 116, 105, 110, 111>>,  \* "Palatino"
    <<71, 97, 114, 97, 109, 111, 110, 100>>,  \* "Garamond"
    <<66, 111, 111, 107, 109, 97, 110>>,  \* "Bookman"
    <<67, 111, 109, 105, 99, 32, 83, 97, 110, 115, 32, 77, 83>>,  \* "Comic Sans MS"
    <<84, 114, 101, 98, 117, 99, 104, 101, 116, 32, 77, 83>>,  \* "Trebuchet MS"
    <<73, 109, 112, 97, 99, 116>>  \* "Impact"
    >>

\* Width of 'mmmmmmmmmmlli' at 72px in each generic family.
BaseWidths == [b \in 1..Len(baseFonts) |-> 600 + 20 * b]

\* Width measured for "<candidate>,<generic family>": the generic family's own
\* width when the candidate is not installed, the candidate's own width (the
\* same whatever the fallback) when it is.
NotInstalled == [b \in 1..Len(baseFonts) |-> BaseWidths[b]]
Installed(w) == [b \in 1..Len(baseFonts) |-> w]

\* An installed candidate is as wide as no generic family (700), or happens to
\* be as wide as one of them.
CandidateWidths == {NotInstalled} \cup {Installed(w) : w \in {700, BaseWidths[1], BaseWidths[3]}}

FontTables ==
    { [i \in 1..Len(testFonts) |-> IF i <= MaxVariedFonts THEN f[i] ELSE NotInstalled] :
        f \in [1..MaxVariedFonts -> CandidateWidths] }

NoFonts == [i \in 1..Len(testFonts) |-> NotInstalled]

\* An ordinary desktop browser.
DefaultEnv == [
    webdriver |-> Bool(FALSE),
    chrome |-> Obj,
    userAgent |-> Str(UA_Chrome),
    selenium_unwrapped |-> Undefined,
    webdriver_evaluate |-> Undefined,
    webgl |-> HardwareWebGL,
    plugins |-> ArrayLike(3),
    languages |-> ArrayLike(2),
    canvas2d |-> "ok",
    dataURL |-> Str(S_DataURL),
    screen |-> [width |-> Num(1920), height |-> Num(1080), colorDepth |-> Num(24), pixelDepth |-> Num(24)],
    timezoneOffset |-> Num(-60),
    platform |-> Str(S_Platform),
    hardwareConcurrency |-> Num(8),
    language |-> Str(S_Language),
    fontWidth |-> NoFonts ]

\* Every combination of what checkHeadless reads.
HeadlessEnvs ==
    { [DefaultEnv EXCEPT !.webdriver = wd, !.chrome = ch, !.userAgent = ua,
                         !.selenium_unwrapped = su, !.webdriver_evaluate = we,
                         !.webgl = gl, !.plugins = pl, !.languages = la] :
        wd \in {Bool(TRUE), Bool(FALSE), Undefined},
        ch \in {Obj, Undefined},
        ua \in {Str(UA_Chrome), Str(UA_Firefox)},
        su \in {Obj, Undefined},
        we \in {Obj, Undefined},
        gl \in WebGLs,
        pl \in {Undefined, ArrayLike(0), ArrayLike(3)},
        la \in {Undefined, ArrayLike(0), ArrayLike(2)} }

\* Every combination of what generateFingerprint reads that can fail or be absent.
FingerprintEnvs ==
    { [DefaultEnv EXCEPT !.canvas2d = c2, !.webgl = gl, !.hardwareConcurrency = hc,
                         !.timezoneOffset = tz, !.fontWidth = ft] :
        c2 \in Canvas2Ds,
        gl \in WebGLs,
        hc \in {Undefined, Num(8)},
        tz \in {Num(-60), Num(0), Num(300)},
        ft \in FontTables }

-----------------------------------------------------------------------------
(* checkHeadless: sentinel.js:18-68 *)

\* The outcome of a piece of code that adds to score: it completes having added
\* `add`, or it throws.
Adds(n) == [threw |-> FALSE, add |-> n]
Throws == [threw |-> TRUE, add |-> 0]

\* Check 1 with half the weight.
Check1Half(e) == Adds(IF e.webdriver.t = "boolean" /\ e.webdriver.v THEN 50 ELSE 0)

\* Check 1, lines 21-24.
Check1(e) == Adds(IF e.webdriver.t = "boolean" /\ e.webdriver.v THEN 100 ELSE 0)

\* Check 2, lines 26-29.
Check2(e) == Adds(IF ~Truthy(e.chrome) /\ Includes(ToJoinString(e.userAgent), STR_Chrome) THEN 20 ELSE 0)

\* Check 3, lines 31-34.
Check3(e) == Adds(IF Truthy(e.selenium_unwrapped) \/ Truthy(e.webdriver_evaluate) THEN 50 ELSE 0)

\* The body of the try block of Check 4, lines 38-52.
Check4Try(e) ==
    CASE e.webgl.kind \in {"throwsEarly", "throwsAtRenderer"} -> Throws
      [] e.webgl.kind \in {"noContext", "noExtension"} -> Adds(0)
      [] e.webgl.kind = "ok" ->
            LET renderer == e.webgl.renderer
            IN  Adds(IF Truthy(renderer)
                        /\ (\/ Includes(renderer.v, STR_SwiftShader)
                            \/ Includes(renderer.v, STR_llvmpipe)
                            \/ Includes(renderer.v, STR_Microsoft_Basic_Render))
                     THEN 30 ELSE 0)

\* Check 4 with no catch clause: what the try block does is what the check does.
Check4Uncaught(e) == Check4Try(e)

\* Check 4, lines 36-55: try { ... } catch (e) { score += 10; }
Check4(e) == IF Check4Try(e).threw THEN Adds(10) ELSE Check4Try(e)

\* Check 5, lines 57-60.
Check5(e) == Adds(IF Truthy(e.plugins) /\ e.plugins.v = 0 THEN 15 ELSE 0)

\* Check 6, lines 62-65.
Check6(e) == Adds(IF ~Truthy(e.languages) \/ e.languages.v = 0 THEN 10 ELSE 0)

\* Statements run one after the other from `acc`: the first that throws ends
\* the run, and nothing after it is executed.
RECURSIVE RunInOrder(_, _)
RunInOrder(stmts, acc) ==
    IF Len(stmts) = 0 THEN [threw |-> FALSE, score |-> acc]
    ELSE IF Head(stmts).threw THEN [threw |-> TRUE, score |-> acc]
    ELSE RunInOrder(Tail(stmts), acc + Head(stmts).add)

\* checkHeadless returning as soon as the automation flag has been seen.
checkHeadlessConclusive(e) ==
    IF Check1(e).add > 0 THEN RunInOrder(<<Check1(e)>>, 0)
    ELSE RunInOrder(<<Check1(e), Check2(e), Check3(e), Check4(e), Check5(e), Check6(e)>>, 0)

checkHeadless(e) ==
    RunInOrder(<<Check1(e), Check2(e), Check3(e), Check4(e), Check5(e), Check6(e)>>, 0)

-----------------------------------------------------------------------------
(* generateFingerprint and detectFonts: sentinel.js:73-166 *)

Returns(x) == [threw |-> FALSE, value |-> x]
Raises == [threw |-> TRUE, value |-> Undefined]

\* getWidth(`${testFont},${baseFont}`) !== baseWidths[baseFont] for some base font,
\* lines 157-159.
FontDetected(e, i) ==
    \E b \in 1..Len(baseFonts) : e.fontWidth[i][b] # BaseWidths[b]

RECURSIVE DetectedFrom(_, _)
DetectedFrom(e, i) ==
    IF i > Len(testFonts) THEN <<>>
    ELSE (IF FontDetected(e, i) THEN <<Str(testFonts[i])>> ELSE <<>>) \o DetectedFrom(e, i + 1)

\* Lines 134-166.  Nothing here is inside a try block: createElement/getContext
\* throwing, or getContext returning null (ctx.font then throws a TypeError),
\* leaves detectFonts by an exception.
detectFonts(e) ==
    IF e.canvas2d # "ok" THEN Raises
    ELSE Returns(Str(Join(DetectedFrom(e, 1), STR_COMMA)))

\* Lines 76-95.
PlainComponents(e) == <<
    e.screen.width, e.screen.height, e.screen.colorDepth, e.screen.pixelDepth,
    e.timezoneOffset,
    e.userAgent,
    e.platform,
    IF Truthy(e.hardwareConcurrency) THEN e.hardwareConcurrency ELSE Str(STR_unknown),
    e.language >>

\* Lines 97-110: what the canvas block pushes.
CanvasComponents(e) ==
    IF e.canvas2d = "ok" THEN <<e.dataURL>> ELSE <<Str(STR_canvas_error)>>

\* Lines 112-125: what the WebGL block pushes.
WebGLComponents(e) ==
    CASE e.webgl.kind \in {"noContext", "noExtension"} -> <<>>
      [] e.webgl.kind = "throwsEarly" -> <<Str(STR_webgl_error)>>
      [] e.webgl.kind = "throwsAtRenderer" -> <<e.webgl.vendor, Str(STR_webgl_error)>>
      [] e.webgl.kind = "ok" -> <<e.webgl.vendor, e.webgl.renderer>>

\* The components array as it stands when line 131 is reached (or when
\* detectFonts has thrown at line 128).
Components(e) ==
    PlainComponents(e) \o CanvasComponents(e) \o WebGLComponents(e)
        \o (IF detectFonts(e).threw THEN <<>> ELSE <<detectFonts(e).value>>)

generateFingerprint(e) ==
    IF detectFonts(e).threw THEN Raises
    ELSE Returns(simpleHash(Join(Components(e), STR_SEP)))

-----------------------------------------------------------------------------
(* The page: sentinel.js:10-13 and 181-285 *)

MIN_HUMAN_INTERACTION_TIME == 800
MIN_HUMAN_TYPING_LATENCY == 150

\* Milliseconds in clock units.
Ms(n) == n * UnitsPerMs

\* Amounts by which the clock is seen to advance between two events.
Steps == {Ms(MIN_HUMAN_TYPING_LATENCY) - 1, Ms(MIN_HUMAN_TYPING_LATENCY), Ms(400)}

\* Time from the evaluation of the script to DOMContentLoaded.
LoadDelays == {0, Ms(MIN_HUMAN_INTERACTION_TIME)}

\* performance.now() when the script is evaluated.
PageLoadTimes == {Ms(120) + 1}

ElementIds == {"login-form", "username", "password"}

AllListeners == {"focus@username", "keydown@username", "keydown@password", "submit@login-form"}

SentinelNames == <<"sentinel_timing", "sentinel_headless", "sentinel_fingerprint", "sentinel_metadata">>

\* An <input> element: its name, its class and its value.
Input(name, className, value) == [name |-> name, className |-> className, value |-> value]

\* The inputs the login page itself puts in the form.
StaticInputs(d) ==
    (IF d["username"] THEN <<Input("username", "", Str(<<>>))>> ELSE <<>>)
    \o (IF d["password"] THEN <<Input("password", "", Str(<<>>))>> ELSE <<>>)

\* No run of the submit listener yet.
NoRun == [
    runs |-> 0,
    run |-> [threw |-> FALSE, effects |-> <<>>, timing_score |-> 0, headless_score |-> 0, fingerprint |-> <<>>] ]

\* Line 217.
total_interaction_time(submit, load) == submit - load

\* Line 218 without the test for a recorded keypress.
typing_latencyUnguarded(submit, first_key) == submit - first_key

\* Line 218.
typing_latency(submit, first_key) == IF first_key > 0 THEN submit - first_key ELSE 0

\* Lines 223-229 with the second test made the else branch of the first.
timing_scoreExclusive(total, typing) ==
    IF total < Ms(MIN_HUMAN_INTERACTION_TIME) THEN 50
    ELSE IF typing > 0 /\ typing < Ms(MIN_HUMAN_TYPING_LATENCY) THEN 30
    ELSE 0

\* Lines 223-229.
timing_score(total, typing) ==
    (IF total < Ms(MIN_HUMAN_INTERACTION_TIME) THEN 50 ELSE 0)
    + (IF typing > 0 /\ typing < Ms(MIN_HUMAN_TYPING_LATENCY) THEN 30 ELSE 0)

\* Lines 274-279.  JSON.stringify is kept as the object it serialises; null is
\* Null and a number n is Num(n).
sentinel_metadata(submit, load, first_focus, first_key) ==
    LET typing == typing_latency(submit, first_key)
    IN  [ t_load_to_submit |-> Num(MathRound(total_interaction_time(submit, load))),
          t_first_focus |-> Num(MathRound(first_focus - load)),
          t_first_key |-> IF first_key > 0 THEN Num(MathRound(first_key - load)) ELSE Null,
          t_typing_duration |-> IF typing > 0 THEN Num(MathRound(typing)) ELSE Null ]

\* Lines 241-243: the children left once every .sentinel-field has been removed.
RemoveExisting(children) == SelectSeq(children, LAMBDA el : el.className # "sentinel-field")

\* Lines 245-280: the four hidden inputs, in the order they are appended.
\* Assigning a number to input.value stores its decimal rendering.
FreshFields(timing, headless, fingerprint, metadata) == <<
    Input("sentinel_timing", "sentinel-field", Str(NatToString(timing))),
    Input("sentinel_headless", "sentinel-field", Str(NatToString(headless))),
    Input("sentinel_fingerprint", "sentinel-field", Str(fingerprint)),
    Input("sentinel_metadata", "sentinel-field", metadata) >>

\* What a run of the listener does to the event and the form, in program
\* order: all of it, or only line 209 when a call threw.
Effects(threw) ==
    IF threw THEN <<"preventDefault">>
    ELSE <<"preventDefault", "remove .sentinel-field">> \o SentinelNames \o <<"form.submit">>

\* The submit listener with the time of the submit pushed as one more
\* component of the fingerprint.
SubmitListenerStamped(e, at, load, first_key) ==
    LET headless == checkHeadless(e)
        print    == generateFingerprint(e)
    IN  [ threw |-> headless.threw \/ print.threw,
          effects |-> Effects(headless.threw \/ print.threw),
          timing_score |-> timing_score(total_interaction_time(at, load),
                                        typing_latency(at, first_key)),
          headless_score |-> headless.score,
          fingerprint |-> IF print.threw THEN <<>>
                          ELSE simpleHash(Join(Append(Components(e), Num(at)), STR_SEP)) ]

\* Lines 209-235 of the submit listener at clock reading `at`: the values of
\* its constants timing_score, headless_score and fingerprint, or the fact that
\* a call threw before line 242 was reached; and what the run does in all.
SubmitListener(e, at, load, first_key) ==
    LET headless == checkHeadless(e)
        print    == generateFingerprint(e)
    IN  [ threw |-> headless.threw \/ print.threw,
          effects |-> Effects(headless.threw \/ print.threw),
          timing_score |-> timing_score(total_interaction_time(at, load),
                                        typing_latency(at, first_key)),
          headless_score |-> headless.score,
          fingerprint |-> IF print.threw THEN <<>> ELSE print.value ]

\* The clock advances while the page waits for the user.
Tick(d) ==
    /\ phase = "ready"
    /\ ticks < MaxTicks
    /\ ticks' = ticks + 1
    /\ now' = now + d
    /\ UNCHANGED <<env, phase, dom, t_page_load, t_first_focus, t_first_key, t_submit,
                   listeners, form, handler, submitEvents, wire, probe, server, history,
                   arg, limiter>>

\* The DOMContentLoaded listener with a guard that looks for the form only.
DOMContentLoadedFormOnly(delay) ==
    /\ phase = "loading"
    /\ phase' = "ready"
    /\ now' = now + delay
    /\ listeners' = IF dom["login-form"] THEN AllListeners ELSE listeners
    /\ UNCHANGED <<env, dom, ticks, t_page_load, t_first_focus, t_first_key, t_submit,
                   form, handler, submitEvents, wire, probe, server, history,
                   arg, limiter>>

\* Lines 181-208: the DOMContentLoaded listener, run `delay` after the script
\* was evaluated.
DOMContentLoaded(delay) ==
    /\ phase = "loading"
    /\ phase' = "ready"
    /\ now' = now + delay
    /\ listeners' = IF \A id \in ElementIds : dom[id] THEN AllListeners ELSE listeners
    /\ UNCHANGED <<env, dom, ticks, t_page_load, t_first_focus, t_first_key, t_submit,
                   form, handler, submitEvents, wire, probe, server, history,
                   arg, limiter>>

\* Lines 192-196: a focus event on #username; the listener is registered with
\* { once: true } and is removed when it has run.
Focus ==
    /\ phase = "ready"
    /\ dom["username"]
    /\ history' = [history EXCEPT !.first_focus = IF @ = -1 THEN now ELSE @]
    /\ IF "focus@username" \in listeners
       THEN /\ t_first_focus' = IF t_first_focus = 0 THEN now ELSE t_first_focus
            /\ listeners' = listeners \ {"focus@username"}
       ELSE UNCHANGED <<t_first_focus, listeners>>
    /\ UNCHANGED <<env, phase, dom, now, ticks, t_page_load, t_first_key, t_submit,
                   form, handler, submitEvents, wire, probe, server,
                   arg, limiter>>

\* trackKeypress with its test removed.
trackKeypressAlways(first_key, at) == at

\* Lines 199-203.
trackKeypress(first_key, at) == IF first_key = 0 THEN at ELSE first_key

\* Lines 204-205: a keydown event on #username or #password; each listener is
\* registered with { once: true }.
KeyDown(field) ==
    /\ phase = "ready"
    /\ dom[field]
    /\ history' = [history EXCEPT !.first_key = IF @ = -1 THEN now ELSE @, !.last_key = now]
    /\ IF ("keydown@" \o field) \in listeners
       THEN /\ t_first_key' = trackKeypress(t_first_key, now)
            /\ listeners' = listeners \ {"keydown@" \o field}
       ELSE UNCHANGED <<t_first_key, listeners>>
    /\ UNCHANGED <<env, phase, dom, now, ticks, t_page_load, t_first_focus, t_submit,
                   form, handler, submitEvents, wire, probe, server,
                   arg, limiter>>

\* A submit event on #login-form.  With the listener registered (lines
\* 208-284) the listener runs to its end or to the statement that throws;
\* preventDefault has then been called and the user agent does not submit.
\* form.submit() sends the form without dispatching a submit event.  With no
\* listener the user agent submits the form as it is.
SubmitEvent ==
    /\ phase = "ready"
    /\ dom["login-form"]
    /\ submitEvents < MaxSubmits
    /\ submitEvents' = submitEvents + 1
    /\ IF "submit@login-form" \in listeners
       THEN /\ t_submit' = now
            /\ handler' = [ run |-> SubmitListener(env, now, t_page_load, t_first_key),
                            runs |-> handler.runs + 1 ]
            /\ form' = IF handler'.run.threw THEN form
                       ELSE RemoveExisting(form)
                            \o FreshFields(handler'.run.timing_score,
                                           handler'.run.headless_score,
                                           handler'.run.fingerprint,
                                           sentinel_metadata(now, t_page_load,
                                                             t_first_focus, t_first_key))
            /\ wire' = IF handler'.run.threw THEN wire
                       ELSE Append(wire, [via |-> "form.submit", fields |-> form'])
       ELSE /\ wire' = Append(wire, [via |-> "native", fields |-> form])
            /\ UNCHANGED <<t_submit, handler, form>>
    /\ UNCHANGED <<env, phase, dom, now, ticks, t_page_load, t_first_focus, t_first_key,
                   listeners, probe, server, history,
                   arg, limiter>>

\* Environments of the page runs: an ordinary browser, an automated one, and
\* one whose canvas gives no 2d context.
PageEnvs ==
    { DefaultEnv,
      [DefaultEnv EXCEPT !.webdriver = Bool(TRUE)],
      [DefaultEnv EXCEPT !.canvas2d = "null"] }

NoProbe == [fn |-> "none", threw |-> FALSE, score |-> 0, value |-> <<>>, components |-> <<>>]
\* The rate limiter before it is configured and started.
NoLimiter == [
    maxAttempts |-> 0, window |-> 0, clock |-> 0, advances |-> 0, calls |-> 0,
    records |-> <<>>, log |-> <<>>,
    last |-> [key |-> <<>>, at |-> 0, count |-> 0, limited |-> FALSE] ]

\* The server before it has decided on any request: its threshold, the number
\* of requests decided, the sub-scores, total and verdict of the last one, the
\* totals of all of them, and the requests handed to the credential validator.
NoServer == [
    threshold |-> 0, decided |-> 0, timing |-> 0, headless |-> 0, penalty |-> 0,
    total |-> 0, blocked |-> FALSE, scores |-> <<>>, validator |-> <<>> ]

\* The state once the script has been evaluated (lines 10-13), in environment e
\* and document d.
Loaded(e, d, t) ==
    /\ env = e
    /\ dom = d
    /\ phase = "loading"
    /\ now = t
    /\ ticks = 0
    /\ t_page_load = t
    /\ t_first_focus = 0
    /\ t_first_key = 0
    /\ t_submit = 0
    /\ listeners = {}
    /\ form = IF d["login-form"] THEN StaticInputs(d) ELSE <<>>
    /\ handler = NoRun
    /\ submitEvents = 0
    /\ wire = <<>>
    /\ probe = NoProbe
    /\ server = NoServer
    /\ arg = <<>>
    /\ limiter = NoLimiter
    /\ history = [first_focus |-> -1, first_key |-> -1, last_key |-> -1]

\* A login page that has the three elements.
FullDocument == [id \in ElementIds |-> TRUE]

Init ==
    \E e \in PageEnvs, t \in PageLoadTimes : Loaded(e, FullDocument, t)

Next ==
    \/ \E d \in Steps : Tick(d)
    \/ \E delay \in LoadDelays : DOMContentLoaded(delay)
    \/ Focus
    \/ \E field \in {"username", "password"} : KeyDown(field)
    \/ SubmitEvent

Spec == Init /\ [][Next]_vars

\* Documents in which #login-form, #username or #password is missing.
PartialDocuments == { d \in [ElementIds -> BOOLEAN] : \E id \in ElementIds : ~d[id] }

InitPartial ==
    \E e \in PageEnvs, d \in PartialDocuments, t \in PageLoadTimes : Loaded(e, d, t)

\* The script on a page that is not the login page it expects.
SpecPartial == InitPartial /\ [][Next]_vars

-----------------------------------------------------------------------------
(* Direct calls of the two probing functions *)

\* checkHeadless() is called in the page's environment.
CallCheckHeadless ==
    /\ probe.fn = "none"
    /\ probe' = [ fn |-> "checkHeadless",
                  threw |-> checkHeadless(env).threw,
                  score |-> checkHeadless(env).score,
                  value |-> <<>>,
                  components |-> <<>> ]
    /\ UNCHANGED <<env, phase, dom, now, ticks, t_page_load, t_first_focus, t_first_key,
                   t_submit, listeners, form, handler, submitEvents, wire, server, history,
                   arg, limiter>>

InitHeadless ==
    \E e \in HeadlessEnvs, t \in PageLoadTimes : Loaded(e, FullDocument, t)

SpecHeadless == InitHeadless /\ [][CallCheckHeadless]_vars

\* generateFingerprint() is called in the page's environment.
CallGenerateFingerprint ==
    /\ probe.fn = "none"
    /\ probe' = [ fn |-> "generateFingerprint",
                  threw |-> generateFingerprint(env).threw,
                  score |-> 0,
                  value |-> generateFingerprint(env).value,
                  components |-> Components(env) ]
    /\ UNCHANGED <<env, phase, dom, now, ticks, t_page_load, t_first_focus, t_first_key,
                   t_submit, listeners, form, handler, submitEvents, wire, server, history,
                   arg, limiter>>

InitFingerprint ==
    \E e \in FingerprintEnvs, t \in PageLoadTimes : Loaded(e, FullDocument, t)

SpecFingerprint == InitFingerprint /\ [][CallGenerateFingerprint]_vars

\* simpleHash(str) is called on the string at hand.
CallSimpleHash ==
    /\ probe.fn = "none"
    /\ probe' = [ fn |-> "simpleHash",
                  threw |-> FALSE,
                  score |-> 0,
                  value |-> simpleHash(arg),
                  components |-> <<>> ]
    /\ UNCHANGED <<env, phase, dom, now, ticks, t_page_load, t_first_focus, t_first_key,
                   t_submit, listeners, form, handler, submitEvents, wire, server, history,
                   arg, limiter>>

\* Code units the strings are made of: NUL, "a" and the largest code unit.
HashAlphabet == {0, 97, 65535}

\* A string whose accumulator ends at -2^31, and the string a fingerprint is
\* the hash of.
STR_MinInt == <<2, 13, 0, 9, 30, 12, 2>>
HashSamples == {STR_MinInt, Join(Components(DefaultEnv), STR_SEP)}

HashInputs ==
    UNION { [1..k -> HashAlphabet] : k \in 0..MaxHashLen } \cup HashSamples

InitHash ==
    \E str \in HashInputs :
        /\ env = DefaultEnv
        /\ dom = FullDocument
        /\ phase = "loading"
        /\ now \in PageLoadTimes
        /\ ticks = 0
        /\ t_page_load = now
        /\ t_first_focus = 0
        /\ t_first_key = 0
        /\ t_submit = 0
        /\ listeners = {}
        /\ form = StaticInputs(FullDocument)
        /\ handler = NoRun
        /\ submitEvents = 0
        /\ wire = <<>>
        /\ probe = NoProbe
        /\ server = NoServer
        /\ arg = str
        /\ limiter = NoLimiter
        /\ history = [first_focus |-> -1, first_key |-> -1, last_key |-> -1]

SpecHash == InitHash /\ [][CallSimpleHash]_vars

-----------------------------------------------------------------------------
(* The server's decision: README "What It Does" and "Configuration" *)

\* app.config['BOT_SCORE_THRESHOLD'].
BOT_SCORE_THRESHOLD == 60

\* Thresholds an operator may configure.
Thresholds == {BOT_SCORE_THRESHOLD, 99, 100, 130}

\* What the rate-limit and reputation layers may add to a request's score.
Penalties == {0, 100}

\* The elements of the form named `name`.
Named(children, name) == SelectSeq(children, LAMBDA el : el.name = name)

\* The value of the request field `name`, Undefined when the field is absent.
FieldOf(fields, name) ==
    IF Len(Named(fields, name)) = 0 THEN Undefined ELSE Named(fields, name)[1].value

\* The number a decimal string denotes.
RECURSIVE ParseNat(_)
ParseNat(str) ==
    IF Len(str) = 0 THEN 0
    ELSE 10 * ParseNat(SubSeq(str, 1, Len(str) - 1)) + (str[Len(str)] - 48)

\* A score field as the server reads it; an absent field counts for nothing.
ScoreField(fields, name) ==
    IF FieldOf(fields, name).t = "string" THEN ParseNat(FieldOf(fields, name).v) ELSE 0

\* The timing sub-score, recomputed from the metadata when it is present and
\* taken from sentinel_timing otherwise.
ServerTimingScore(fields) ==
    LET m == FieldOf(fields, "sentinel_metadata")
    IN  IF m = Undefined THEN ScoreField(fields, "sentinel_timing")
        ELSE (IF m.t_load_to_submit.v < MIN_HUMAN_INTERACTION_TIME THEN 50 ELSE 0)
             + (IF m.t_typing_duration.t = "number"
                   /\ m.t_typing_duration.v > 0
                   /\ m.t_typing_duration.v < MIN_HUMAN_TYPING_LATENCY
                THEN 30 ELSE 0)

\* The total score: the sum of the sub-scores.
TotalScore(timing, headless, penalty) == timing + headless + penalty

\* Only requests scoring more than the threshold are blocked.
BlockedAbove(total, threshold) == total > threshold

\* Requests scoring the threshold or more are blocked.
Blocked(total, threshold) == total >= threshold

\* The server scores the oldest request it has not decided yet; `penalty` is
\* what the rate limiter and the reputation check add for it.  A blocked
\* request is answered with the rejection; any other is handed to the
\* credential validator.
ServerDecide(penalty) ==
    /\ server.decided < Len(wire)
    /\ LET fields   == wire[server.decided + 1].fields
           timing   == ServerTimingScore(fields)
           headless == ScoreField(fields, "sentinel_headless")
           total    == TotalScore(timing, headless, penalty)
       IN  server' = [ threshold |-> server.threshold,
                       decided |-> server.decided + 1,
                       timing |-> timing,
                       headless |-> headless,
                       penalty |-> penalty,
                       total |-> total,
                       blocked |-> Blocked(total, server.threshold),
                       scores |-> Append(server.scores, total),
                       validator |-> IF Blocked(total, server.threshold)
                                     THEN server.validator
                                     ELSE Append(server.validator, server.decided + 1) ]
    /\ UNCHANGED <<env, phase, dom, now, ticks, t_page_load, t_first_focus, t_first_key,
                   t_submit, listeners, form, handler, submitEvents, wire, probe, history,
                   arg, limiter>>

\* Environments of the requests the server is shown: with and without the
\* automation flag, and with the other headless checks firing or not.
GateEnvs ==
    { [DefaultEnv EXCEPT !.webdriver = wd, !.chrome = ch, !.selenium_unwrapped = su,
                         !.webgl = gl, !.plugins = pl, !.languages = la] :
        wd \in {Bool(TRUE), Bool(FALSE)},
        ch \in {Obj, Undefined},
        su \in {Obj, Undefined},
        gl \in {w \in WebGLs : w.kind \in {"noContext", "throwsEarly"}
                               \/ w.renderer \in {Str(R_SwiftShader), Str(R_Hardware)}},
        pl \in {ArrayLike(0), ArrayLike(3)},
        la \in {ArrayLike(0), ArrayLike(2)} }

InitGate ==
    \E e \in GateEnvs, t \in PageLoadTimes, th \in Thresholds :
        /\ env = e
        /\ dom = FullDocument
        /\ phase = "loading"
        /\ now = t
        /\ ticks = 0
        /\ t_page_load = t
        /\ t_first_focus = 0
        /\ t_first_key = 0
        /\ t_submit = 0
        /\ listeners = {}
        /\ form = StaticInputs(FullDocument)
        /\ handler = NoRun
        /\ submitEvents = 0
        /\ wire = <<>>
        /\ probe = NoProbe
        /\ server = [NoServer EXCEPT !.threshold = th]
        /\ arg = <<>>
        /\ limiter = NoLimiter
        /\ history = [first_focus |-> -1, first_key |-> -1, last_key |-> -1]

NextGate ==
    \/ \E delay \in LoadDelays : DOMContentLoaded(delay)
    \/ SubmitEvent
    \/ \E penalty \in Penalties : ServerDecide(penalty)

SpecGate == InitGate /\ [][NextGate]_vars

-----------------------------------------------------------------------------
(* The rate limiter: README "Rate Limiting" and "Configuration" *)

\* MAX_LOGIN_ATTEMPTS and RATE_LIMIT_WINDOW (seconds) of the sample .env.
MAX_LOGIN_ATTEMPTS == 5
RATE_LIMIT_WINDOW == 300

\* Configurations an operator may start the server with.
LimiterConfigs ==
    { [maxAttempts |-> MAX_LOGIN_ATTEMPTS, window |-> RATE_LIMIT_WINDOW],
      [maxAttempts |-> 2, window |-> 60] }

\* Identity keys (address, username): two users behind one address.
IdentityKeys == { <<"10.0.0.1", "alice">>, <<"10.0.0.1", "bob">> }

\* The server's clock, in seconds, when it starts.
ServerStart == 1000

\* recordAttempt(identityKey, now): the key's timestamps once `at` has been
\* appended and every timestamp older than at - window pruned; its length is
\* the count returned.
recordAttempt(l, key, at) ==
    SelectSeq(Append(l.records[key], at), LAMBDA t : t >= at - l.window)

\* isLimited with the limit reached by the maxAttempts-th attempt itself.
isLimitedAtLimit(l, key, at) == Len(recordAttempt(l, key, at)) >= l.maxAttempts

\* isLimited(identityKey, now): recordAttempt(...) > maxAttempts.
isLimited(l, key, at) == Len(recordAttempt(l, key, at)) > l.maxAttempts

\* A login attempt for `key` arrives: the limiter records it and reports.
Attempt(key) ==
    /\ limiter.calls < MaxCalls
    /\ limiter' = [limiter EXCEPT
                      !.calls = @ + 1,
                      !.records[key] = recordAttempt(limiter, key, limiter.clock),
                      !.log = Append(@, [key |-> key, at |-> limiter.clock]),
                      !.last = [ key |-> key,
                                 at |-> limiter.clock,
                                 count |-> Len(recordAttempt(limiter, key, limiter.clock)),
                                 limited |-> isLimited(limiter, key, limiter.clock) ]]
    /\ UNCHANGED <<env, phase, dom, now, ticks, t_page_load, t_first_focus, t_first_key,
                   t_submit, listeners, form, handler, submitEvents, wire, probe, server,
                   arg, history>>

\* The server's clock advances by one second or by the window's duration.
Advance(d) ==
    /\ limiter.advances < MaxAdvances
    /\ limiter' = [limiter EXCEPT !.advances = @ + 1, !.clock = @ + d]
    /\ UNCHANGED <<env, phase, dom, now, ticks, t_page_load, t_first_focus, t_first_key,
                   t_submit, listeners, form, handler, submitEvents, wire, probe, server,
                   arg, history>>

InitLimiter ==
    \E cfg \in LimiterConfigs :
        /\ env = DefaultEnv
        /\ dom = FullDocument
        /\ phase = "loading"
        /\ now \in PageLoadTimes
        /\ ticks = 0
        /\ t_page_load = now
        /\ t_first_focus = 0
        /\ t_first_key = 0
        /\ t_submit = 0
        /\ listeners = {}
        /\ form = StaticInputs(FullDocument)
        /\ handler = NoRun
        /\ submitEvents = 0
        /\ wire = <<>>
        /\ probe = NoProbe
        /\ server = NoServer
        /\ arg = <<>>
        /\ limiter = [NoLimiter EXCEPT
                         !.maxAttempts = cfg.maxAttempts,
                         !.window = cfg.window,
                         !.clock = ServerStart,
                         !.records = [k \in IdentityKeys |-> <<>>]]
        /\ history = [first_focus |-> -1, first_key |-> -1, last_key |-> -1]

NextLimiter ==
    \/ \E key \in IdentityKeys : Attempt(key)
    \/ \E d \in {1, limiter.window} : Advance(d)

SpecLimiter == InitLimiter /\ [][NextLimiter]_vars

-----------------------------------------------------------------------------
(* Properties of the page *)

\* The submit listener is registered on this page.
Collecting == "submit@login-form" \in listeners

\* This step is a run of the submit listener.
ListenerRuns == handler'.runs = handler.runs + 1

\* C1: after one or more submit events on a loaded page the form holds exactly
\* one field of each sentinel name, with the value computed by the most recent
\* submit, and nothing of an earlier submit.
C1_OneFreshBundle ==
    (Collecting /\ submitEvents > 0) =>
        /\ \A i \in 1..Len(SentinelNames) : Len(Named(form, SentinelNames[i])) = 1
        /\ Named(form, "sentinel_timing")[1].value = Str(NatToString(handler.run.timing_score))
        /\ Named(form, "sentinel_headless")[1].value = Str(NatToString(handler.run.headless_score))
        /\ Named(form, "sentinel_fingerprint")[1].value = Str(handler.run.fingerprint)
        /\ Named(form, "sentinel_metadata")[1].value.t_load_to_submit
              = Num(MathRound(t_submit - t_page_load))

\* C2: every submit event the listener receives has its native submission
\* prevented first and is followed by exactly one form.submit(), made after the
\* four sentinel fields are attached; form.submit() does not run the listener.
C2_SubmittedOnce ==
    (Collecting /\ submitEvents > 0) =>
        /\ handler.runs = submitEvents
        /\ Head(handler.run.effects) = "preventDefault"
        /\ handler.run.effects[Len(handler.run.effects)] = "form.submit"
        /\ Len(SelectSeq(handler.run.effects, LAMBDA x : x = "form.submit")) = 1
        /\ \A i \in 1..Len(SentinelNames) :
              \E k \in 1..(Len(handler.run.effects) - 1) : handler.run.effects[k] = SentinelNames[i]
        /\ Len(wire) = submitEvents
        /\ \A k \in 1..Len(wire) : wire[k].via = "form.submit"

\* C3: once set, t_first_key and t_first_focus never change; t_first_key is the
\* time of the earliest keydown in either field and t_first_focus the time of
\* the first focus of #username.
C3_CapturedOnce ==
    [][ /\ t_first_key # 0 => t_first_key' = t_first_key
        /\ t_first_focus # 0 => t_first_focus' = t_first_focus
        /\ history'.first_key # -1 => (Collecting' => t_first_key' = history'.first_key)
        /\ history'.first_focus # -1 => (Collecting' => t_first_focus' = history'.first_focus)
      ]_vars

\* Both fields have had a keydown, the later one after the first, and
\* t_first_key holds the time of the first.
C3_Witness ==
    /\ Collecting
    /\ "keydown@username" \notin listeners
    /\ "keydown@password" \notin listeners
    /\ "focus@username" \notin listeners
    /\ history.last_key > history.first_key
    /\ t_first_key = history.first_key

\* C4: at a submit with no keypress recorded the typing penalty is not added,
\* whatever the other timings, and the metadata attached reports t_first_key
\* and t_typing_duration as null.
C4_NoKeypressNoPenalty ==
    [][ (ListenerRuns /\ t_first_key = 0) =>
            /\ handler'.run.timing_score \in {0, 50}
            /\ ~handler'.run.threw =>
                  /\ Named(form', "sentinel_metadata")[1].value.t_first_key = Null
                  /\ Named(form', "sentinel_metadata")[1].value.t_typing_duration = Null
      ]_vars

\* A bundle attached at a submit well after load at which no key had been pressed.
C4_Witness ==
    /\ handler.runs > 0
    /\ history.first_key = -1
    /\ ~handler.run.threw
    /\ handler.run.timing_score = 0
    /\ Named(form, "sentinel_metadata")[1].value.t_typing_duration = Null

\* C5: the timing score is 50 iff total_interaction_time is below 800 ms, plus
\* 30 iff a typing latency is positive and below 150 ms; it is one of 0, 30,
\* 50, 80; a submit at 400 ms with no keypress scores 50.
C5_TimingScore ==
    [][ ListenerRuns =>
            LET total == now - t_page_load
                fast  == total < Ms(800)
                quick == /\ t_first_key # 0
                         /\ now - t_first_key > 0
                         /\ now - t_first_key < Ms(150)
                score == handler'.run.timing_score
            IN  /\ score = (CASE fast /\ quick -> 80
                              [] fast /\ ~quick -> 50
                              [] ~fast /\ quick -> 30
                              [] OTHER -> 0)
                /\ (total = Ms(400) /\ t_first_key = 0) => score = 50
      ]_vars

\* A submit 400 ms after load with no keypress, scored 50.
C5_Witness ==
    /\ handler.runs > 0
    /\ t_submit - t_page_load = Ms(400)
    /\ history.first_key = -1
    /\ handler.run.timing_score = 50

\* The metadata attached by the last run of the submit listener.
AttachedMetadata == Named(form, "sentinel_metadata")[1].value

\* A timestamp of the metadata is null or lies between page load and submit.
WithinSubmit(x) == x = Null \/ (x.v >= 0 /\ x.v <= AttachedMetadata.t_load_to_submit.v)

\* C16: in every bundle attached, each timestamp of sentinel_metadata is null
\* or a non-negative offset from page load not exceeding t_load_to_submit; no
\* focus of #username so far means t_first_focus is null, no keypress so far
\* means t_first_key and t_typing_duration are null.
C16_TimestampsWithinSubmit ==
    (handler.runs > 0 /\ ~handler.run.threw) =>
        /\ AttachedMetadata.t_load_to_submit.v >= 0
        /\ WithinSubmit(AttachedMetadata.t_first_focus)
        /\ WithinSubmit(AttachedMetadata.t_first_key)
        /\ WithinSubmit(AttachedMetadata.t_typing_duration)
        /\ history.first_focus = -1 => AttachedMetadata.t_first_focus = Null
        /\ history.first_key = -1 =>
              /\ AttachedMetadata.t_first_key = Null
              /\ AttachedMetadata.t_typing_duration = Null

\* C17: on a page where #login-form, #username or #password is missing the
\* script registers no listener: whatever events follow, it records no time,
\* never runs its submit listener, attaches no sentinel field, and every
\* submit is the user agent's own submission of the form as it is.
C17_NoCollectorWithoutElements ==
    (\E id \in ElementIds : ~dom[id]) =>
        /\ listeners = {}
        /\ handler = NoRun
        /\ t_first_focus = 0 /\ t_first_key = 0 /\ t_submit = 0
        /\ form = (IF dom["login-form"] THEN StaticInputs(dom) ELSE <<>>)
        /\ Len(wire) = submitEvents
        /\ \A k \in 1..Len(wire) :
              /\ wire[k].via = "native"
              /\ wire[k].fields = StaticInputs(dom)

\* A page with the form and #password but no #username, after DOMContentLoaded,
\* a keydown in #password and two submits.
C17_Witness ==
    /\ phase = "ready"
    /\ dom["login-form"] /\ dom["password"] /\ ~dom["username"]
    /\ history.first_key # -1
    /\ submitEvents = 2
    /\ Len(wire) = 2

-----------------------------------------------------------------------------
(* Properties of checkHeadless *)

Called(fn) == probe.fn = fn

\* The weights of the checks other than the renderer check, by the condition
\* under which each fires.
AutomationFlag(e) == IF e.webdriver = Bool(TRUE) THEN 100 ELSE 0
EngineWithoutGlobal(e) == IF e.userAgent = Str(UA_Chrome) /\ e.chrome = Undefined THEN 20 ELSE 0
InjectedProperties(e) == IF e.selenium_unwrapped = Obj \/ e.webdriver_evaluate = Obj THEN 50 ELSE 0
ZeroPlugins(e) == IF e.plugins = ArrayLike(0) THEN 15 ELSE 0
NoLanguages(e) == IF e.languages \in {Undefined, ArrayLike(0)} THEN 10 ELSE 0
SoftwareRenderer(e) ==
    IF e.webgl.kind = "ok" /\ e.webgl.renderer \in {Str(R_SwiftShader), Str(R_llvmpipe), Str(R_MsBasic)}
    THEN 30 ELSE 0

OtherChecks(e) ==
    AutomationFlag(e) + EngineWithoutGlobal(e) + InjectedProperties(e) + ZeroPlugins(e) + NoLanguages(e)

RendererQueryThrows(e) == e.webgl.kind \in {"throwsEarly", "throwsAtRenderer"}
RendererUnsupported(e) == e.webgl.kind \in {"noContext", "noExtension"}

\* C6: checkHeadless returns a score whatever throws or is unsupported: no
\* exception leaves it, and a check that throws does not keep the checks after
\* it from contributing.
C6_RunsToCompletion ==
    Called("checkHeadless") =>
        /\ ~probe.threw
        /\ probe.score \in Nat
        /\ probe.score >= ZeroPlugins(env) + NoLanguages(env)

\* The renderer query throws, every other API is missing, and the checks after
\* the renderer check have still contributed.
C6_Witness ==
    /\ Called("checkHeadless")
    /\ RendererQueryThrows(env)
    /\ env.webdriver = Undefined /\ env.chrome = Undefined
    /\ env.selenium_unwrapped = Undefined /\ env.webdriver_evaluate = Undefined
    /\ env.plugins = Undefined /\ env.languages = Undefined
    /\ ~probe.threw
    /\ probe.score >= 20

\* C7 as stated: the score is exactly the sum of the six listed weights of the
\* checks that fire.
C7_SumOfListedWeights ==
    Called("checkHeadless") => probe.score = OtherChecks(env) + SoftwareRenderer(env)

\* C7 amended: the score is the sum of the six listed weights of the checks
\* that fire, plus 10 when the renderer query throws; no clamping, and each
\* check contributes whatever the others do.
C7_SumOfWeights ==
    Called("checkHeadless") =>
        probe.score = OtherChecks(env) + SoftwareRenderer(env)
                      + (IF RendererQueryThrows(env) THEN 10 ELSE 0)

\* All six checks fire and the score is their full sum.
C7_Witness ==
    /\ Called("checkHeadless")
    /\ AutomationFlag(env) = 100 /\ EngineWithoutGlobal(env) = 20
    /\ InjectedProperties(env) = 50 /\ SoftwareRenderer(env) = 30
    /\ ZeroPlugins(env) = 15 /\ NoLanguages(env) = 10
    /\ probe.score = 225

\* C8: any failure to query the renderer string, unsupported or thrown, adds
\* the fallback penalty of 10.
C8_FallbackOnAnyFailure ==
    (Called("checkHeadless") /\ (RendererQueryThrows(env) \/ RendererUnsupported(env))) =>
        probe.score = OtherChecks(env) + 10

-----------------------------------------------------------------------------
(* Properties of simpleHash *)

\* h * 31 + c modulo 2^32, by long multiplication on the 16-bit halves.
Times31Plus(h, c) ==
    LET lo == h[2] * 31 + c
        hi == h[1] * 31 + (lo \div W16)
    IN  <<hi % W16, lo % W16>>

\* The accumulator after folding hash = hash*31 + charCode over the characters
\* first..last of str from h, wrapped to 32 bits after each step; the range is
\* folded by halves.
RECURSIVE Fold31(_, _, _, _)
Fold31(str, first, last, h) ==
    IF first > last THEN h
    ELSE IF first = last THEN Times31Plus(h, str[first])
    ELSE LET mid  == (first + last) \div 2
             left == Fold31(str, first, mid, h)
         IN  IF left[1] < W16 THEN Fold31(str, mid + 1, last, left) ELSE left

\* The absolute value of the signed 32-bit integer with pattern h, as a number
\* written in two 16-bit halves.
Magnitude(h) ==
    IF h[1] < 32768 THEN h
    ELSE IF h[2] = 0 THEN <<W16 - h[1], 0>>
    ELSE <<W16 - 1 - h[1], W16 - h[2]>>

\* The value of a base-36 digit, -1 for any other code unit.
DigitValue(c) ==
    IF c >= 48 /\ c <= 57 THEN c - 48
    ELSE IF c >= 97 /\ c <= 122 THEN c - 97 + 10
    ELSE -1

\* The number a string of base-36 digits denotes, in two 16-bit halves; the
\* first half is W16 or more when the number does not fit 32 bits.
RECURSIVE Value36(_, _, _)
Value36(str, i, acc) ==
    IF i > Len(str) \/ acc[1] >= W16 THEN acc
    ELSE LET lo == acc[2] * 36 + DigitValue(str[i])
             hi == acc[1] * 36 + (lo \div W16)
         IN  Value36(str, i + 1, <<hi, lo % W16>>)

\* C11: simpleHash returns the base-36 rendering (digits 0-9a-z, no leading
\* zero) of the absolute value of the accumulator obtained by folding
\* hash = hash*31 + charCode from 0 with wrap-around to a signed 32-bit integer
\* after each step; the rendered value is non-negative and at most 2^31.
C11_Base36OfAbsFold ==
    Called("simpleHash") =>
        LET magnitude == Magnitude(Fold31(arg, 1, Len(arg), <<0, 0>>))
        IN  /\ Len(probe.value) >= 1
            /\ \A i \in 1..Len(probe.value) : DigitValue(probe.value[i]) >= 0
            /\ Len(probe.value) > 1 => probe.value[1] # 48
            /\ Value36(probe.value, 1, <<0, 0>>) = magnitude
            /\ magnitude[1] < 32768 \/ magnitude = <<32768, 0>>

\* The accumulator has wrapped to -2^31, whose absolute value 2^31 is rendered.
C11_Witness ==
    /\ Called("simpleHash")
    /\ Fold31(arg, 1, Len(arg), <<0, 0>>) = <<32768, 0>>
    /\ probe.value = <<122, 105, 107, 48, 122, 107>>  \* "zik0zk"

-----------------------------------------------------------------------------
(* Properties of generateFingerprint *)

\* Nine plain components, one for the canvas, two for WebGL, one for the fonts.
FingerprintPositions == 9 + 1 + 2 + 1

\* C10: generateFingerprint never throws, and a component that cannot be read
\* is replaced by one sentinel in its position, so the component list always
\* has the same number of positions.
C10_Total ==
    Called("generateFingerprint") =>
        /\ ~probe.threw
        /\ Len(probe.components) = FingerprintPositions

ReportedFonts == probe.components[Len(probe.components)].v

\* C15: detectFonts reports a candidate iff its rendered width differs from
\* every one of the three baseline widths; a candidate as wide as the baseline
\* of at least one family is not reported.
C15_DetectedIffDiffersFromEvery ==
    (Called("generateFingerprint") /\ ~probe.threw) =>
        \A i \in 1..Len(testFonts) :
            Includes(ReportedFonts, testFonts[i])
                <=> \A b \in 1..Len(baseFonts) : env.fontWidth[i][b] # BaseWidths[b]

-----------------------------------------------------------------------------
(* Properties of the rate limiter *)

\* The attempts ever made for the key of the last attempt that lie within the
\* window ending at the last attempt, that attempt included.
InWindow ==
    { i \in 1..Len(limiter.log) :
        /\ limiter.log[i].key = limiter.last.key
        /\ limiter.log[i].at >= limiter.last.at - limiter.window }

\* C13: an attempt is reported as limited exactly when more than maxAttempts
\* attempts for its key, itself included, lie within the window ending at it:
\* the first maxAttempts attempts of a window are not limited, the next one
\* is, and an attempt more than the window's duration old is not counted.
C13_LimitedAfterMaxAttempts ==
    limiter.calls > 0 =>
        /\ limiter.last.count = Cardinality(InWindow)
        /\ limiter.last.limited <=> Cardinality(InWindow) > limiter.maxAttempts

\* Under the default configuration the sixth attempt within 300 seconds is
\* limited, an attempt of the same key older than the window being left out.
C13_Witness ==
    /\ limiter.maxAttempts = MAX_LOGIN_ATTEMPTS
    /\ limiter.window = RATE_LIMIT_WINDOW
    /\ limiter.last.limited
    /\ limiter.last.count = MAX_LOGIN_ATTEMPTS + 1
    /\ \E i \in 1..Len(limiter.log) :
          /\ limiter.log[i].key = limiter.last.key
          /\ limiter.log[i].at < limiter.last.at - limiter.window

-----------------------------------------------------------------------------
(* Properties of the decision *)

\* C9: with navigator.webdriver true the headless score placed in the bundle is
\* at least 100 whatever the other checks yield, so the total is at least 100
\* and the request is blocked under every threshold below 100.
C9_AutomationFlagBlocks ==
    env.webdriver = Bool(TRUE) =>
        /\ (handler.runs > 0 /\ ~handler.run.threw) =>
              /\ handler.run.headless_score >= 100
              /\ FieldOf(form, "sentinel_headless") = Str(NatToString(handler.run.headless_score))
        /\ server.decided > 0 =>
              /\ server.headless >= 100
              /\ server.total >= 100
              /\ server.threshold < 100 => server.blocked

\* A request from an automated browser in which no other check fires, with
\* slow timing and no penalty, blocked under the threshold 99.
C9_Witness ==
    /\ env.webdriver = Bool(TRUE)
    /\ server.decided > 0
    /\ server.threshold = 99
    /\ server.headless = 100
    /\ server.total = 100
    /\ server.blocked

\* C14: a request is blocked iff its total, the sum of the timing, headless
\* and rate-limit/reputation sub-scores, is at least the configured threshold;
\* a blocked request never reaches the credential validator and every other
\* request is handed to it, once.
C14_BlockedIffAtThreshold ==
    /\ server.decided > 0 =>
          /\ server.total = server.timing + server.headless + server.penalty
          /\ server.scores[server.decided] = server.total
          /\ server.blocked <=> server.total >= server.threshold
    /\ \A k \in 1..server.decided :
          Len(SelectSeq(server.validator, LAMBDA r : r = k))
              = (IF server.scores[k] >= server.threshold THEN 0 ELSE 1)
    /\ \A i \in 1..Len(server.validator) : server.validator[i] \in 1..server.decided

\* Of two requests the first scored below the threshold and was handed to the
\* validator, the second scored exactly the threshold and was blocked.
C14_Witness ==
    /\ server.decided = 2
    /\ server.scores[1] < server.threshold
    /\ server.validator = <<1>>
    /\ server.total = server.threshold
    /\ server.blocked

====
